---- MODULE Spec2Model ----
(***************************************************************************)
(* ShotTracker ballistics service (backend/app).                           *)
(*                                                                         *)
(* Python floats are modelled as binary floating-point numbers with a      *)
(* Prec-bit significand, round-to-nearest-even, and an unbounded exponent: *)
(* every arithmetic operation rounds its exact result the way binary64     *)
(* does, so cancellation, ties between neighbouring inputs and residues    *)
(* such as sin(radians(180)) are kept.  Overflow to inf and underflow to   *)
(* zero at the ends of the binary64 exponent range are outside the model.  *)
(* The C library's pow, which Python's ** calls, is accurate to about half *)
(* a unit in the last place but not correctly rounded: where it rounds the *)
(* other way is a property of the build, held in the variable libm.        *)
(***************************************************************************)
EXTENDS Integers, Sequences, FiniteSets, TLC

VARIABLES
    RIFLES_DB,   \* rifles.py: the in-memory store
    creates,     \* how many create_rifle requests have completed
    last,        \* the latest operation: what was asked and how it ended
    first_calc,  \* the first /calculate request served, and the store then
    args,        \* the arguments a direct caller of ballistics.py holds
    libm         \* the build: the exponent parities at which pow rounds a
                 \* near-tie away from the nearest float

vars == <<RIFLES_DB, creates, last, first_calc, args, libm>>

(***************************************************************************)
(* Bounds of the model.                                                    *)
(***************************************************************************)
\* bits of significand kept by the modelled float (binary64 keeps 53)
Prec == 12
\* how many rifles the registry is filled with
MaxRifles == 2
\* how many neighbouring floats above a base distance are tried
MaxUlps == 4

(***************************************************************************)
(* Floating point: a float is [m |-> significand, e |-> exponent], value   *)
(* m * 2^e, with 2^(Prec-1) <= |m| < 2^Prec, or m = 0 and e = 0.           *)
(***************************************************************************)
Abs(i) == IF i < 0 THEN -i ELSE i

Sgn(i) == IF i < 0 THEN -1 ELSE IF i = 0 THEN 0 ELSE 1

Min(a, b) == IF a <= b THEN a ELSE b

\* the number of bits of n, 0 <= n < 2^31
BitLen(n) ==
    IF n < 32768
    THEN IF n < 128
         THEN IF n < 8
              THEN IF n < 2
                   THEN IF n < 1
                        THEN 0
                        ELSE 1
                   ELSE IF n < 4
                        THEN 2
                        ELSE 3
              ELSE IF n < 32
                   THEN IF n < 16
                        THEN 4
                        ELSE 5
                   ELSE IF n < 64
                        THEN 6
                        ELSE 7
         ELSE IF n < 2048
              THEN IF n < 512
                   THEN IF n < 256
                        THEN 8
                        ELSE 9
                   ELSE IF n < 1024
                        THEN 10
                        ELSE 11
              ELSE IF n < 8192
                   THEN IF n < 4096
                        THEN 12
                        ELSE 13
                   ELSE IF n < 16384
                        THEN 14
                        ELSE 15
    ELSE IF n < 8388608
         THEN IF n < 524288
              THEN IF n < 131072
                   THEN IF n < 65536
                        THEN 16
                        ELSE 17
                   ELSE IF n < 262144
                        THEN 18
                        ELSE 19
              ELSE IF n < 2097152
                   THEN IF n < 1048576
                        THEN 20
                        ELSE 21
                   ELSE IF n < 4194304
                        THEN 22
                        ELSE 23
         ELSE IF n < 134217728
              THEN IF n < 33554432
                   THEN IF n < 16777216
                        THEN 24
                        ELSE 25
                   ELSE IF n < 67108864
                        THEN 26
                        ELSE 27
              ELSE IF n < 536870912
                   THEN IF n < 268435456
                        THEN 28
                        ELSE 29
                   ELSE IF n < 1073741824
                        THEN 30
                        ELSE 31

FZero == [m |-> 0, e |-> 0]

\* q + 1 or q, for a quotient q whose doubled remainder is r2 against the
\* divisor p: up when above the half, or at the half and q is odd
Nearest(q, r2, p) == IF r2 > p \/ (r2 = p /\ q % 2 = 1) THEN q + 1 ELSE q

\* the float s * q * 2^e, where rounding up may have carried q to 2^Prec
Carry(s, q, e) ==
    IF q = 2^Prec THEN [m |-> s * 2^(Prec - 1), e |-> e + 1]
    ELSE [m |-> s * q, e |-> e]

\* i * 2^e with sh bits too many (sh > 0) or -sh bits too few
RoundTo(i, e, sh) ==
    IF sh <= 0 THEN [m |-> i * 2^(-sh), e |-> e + sh]
    ELSE Carry(Sgn(i),
               Nearest(Abs(i) \div 2^sh, 2 * (Abs(i) % 2^sh), 2^sh),
               e + sh)

\* round the exact value i * 2^e to the nearest float, ties to even
Round(i, e) ==
    IF i = 0 THEN FZero ELSE RoundTo(i, e, BitLen(Abs(i)) - Prec)

\* int -> float
FInt(i) == Round(i, 0)

FNeg(x) == [m |-> -(x.m), e |-> x.e]

FAbs(x) == [m |-> Abs(x.m), e |-> x.e]

\* x * y
FMul(x, y) ==
    IF x.m = 0 \/ y.m = 0 THEN FZero ELSE Round(x.m * y.m, x.e + y.e)

\* x / y for y # 0: the quotient to Prec + 2 bits plus a sticky bit, rounded
FDiv(x, y) ==
    IF x.m = 0 THEN FZero
    ELSE LET n == Abs(x.m) * 2^(Prec + 2)
             d == Abs(y.m)
             q == n \div d
             s == IF n % d = 0 THEN 0 ELSE 1
         IN  Round(Sgn(x.m) * Sgn(y.m) * (2 * q + s), x.e - y.e - (Prec + 3))

\* x + y
FAdd(x, y) ==
    IF x.m = 0 THEN y
    ELSE IF y.m = 0 THEN x
    ELSE IF x.e - y.e > Prec + 2 THEN x
    ELSE IF y.e - x.e > Prec + 2 THEN y
    ELSE LET e == Min(x.e, y.e)
         IN  Round(x.m * 2^(x.e - e) + y.m * 2^(y.e - e), e)

\* x - y
FSub(x, y) == FAdd(x, FNeg(y))

\* comparisons
FSign(x) == Sgn(x.m)

FLt(x, y) == FSign(FSub(x, y)) < 0

FLe(x, y) == FSign(FSub(x, y)) <= 0

\* the float a decimal literal n/d (n >= 0, d > 0) is read as
RECURSIVE LitShift(_, _, _)
LitShift(n, d, k) ==
    IF n * 2^k >= d * 2^(Prec + 1) THEN k ELSE LitShift(n, d, k + 1)

Lit(n, d) ==
    IF n = 0 THEN FZero
    ELSE LET k == LitShift(n, d, 0)
             q == (n * 2^k) \div d
             s == IF (n * 2^k) % d = 0 THEN 0 ELSE 1
         IN  Round(2 * q + s, -(k + 1))

\* the next float above x (x > 0)
FNext(x) == Round(x.m + 1, x.e)

\* x ** 2, by the C library's pow: the float nearest to the exact square,
\* except that a square within 1/64 of a unit in the last place of the midpoint
\* of two floats comes out as the farther of the two on the builds and at the
\* exponents libm names
Square(x) ==
    IF x.m = 0 THEN FZero
    ELSE LET p    == x.m * x.m
             sh   == BitLen(p) - Prec
             q    == p \div 2^sh
             r    == p % 2^sh
             half == 2^(sh - 1)
             near_tie == r # half /\ Abs(r - half) * 64 <= 2^sh
         IN  IF near_tie /\ (x.e % 2) \in libm
             THEN Round(IF r < half THEN q + 1 ELSE q, 2 * x.e + sh)
             ELSE Round(p, 2 * x.e)

(***************************************************************************)
(* libm: the values CPython's math module returns in binary64, given with  *)
(* a 24-bit significand and rounded to the model's precision.              *)
(***************************************************************************)
\* math.pi / 180, the factor math.radians multiplies by
PiOver180 == Round(9370165, -29)

\* math.radians(x)
Radians(x) == FMul(x, PiOver180)

\* math.sin at the angles the model uses: <<radians, sine>>
SinTable ==
    { <<Radians(FInt(0)),   FZero>>,
      <<Radians(FInt(45)),  Round(11863283, -24)>>,
      <<Radians(FInt(90)),  FInt(1)>>,
      <<Radians(FInt(180)), Round(9253170, -76)>>,
      <<Radians(FInt(270)), FInt(-1)>>,
      <<Radians(FInt(-90)), FInt(-1)>>,
      <<Radians(FInt(360)), Round(-9253170, -75)>> }

Sin(t) == (CHOOSE p \in SinTable : p[1] = t)[2]

\* x ** 0.8 at the normalised velocities the model uses: <<x, x ** 0.8>>
Pow08Table ==
    { <<FZero, FZero>>,
      <<FInt(1), FInt(1)>>,
      <<FDiv(FInt(3000), FInt(2700)), Round(9126324, -23)>>,
      <<FDiv(FInt(1350), FInt(2700)), Round(9635980, -24)>> }

Pow08(x) == (CHOOSE p \in Pow08Table : p[1] = x)[2]

(***************************************************************************)
(* The outcome of a Python call: a returned value or a raised exception.   *)
(***************************************************************************)
Return(v) == [kind |-> "return", value |-> v]

Raise(x) == [kind |-> "raise", exc |-> x]

\* a complex number (what float ** float gives for a negative base)
Complex == [complex |-> TRUE]

(***************************************************************************)
(* backend/app/ballistics.py                                               *)
(***************************************************************************)
G == Lit(981, 100)

YARDS_TO_METERS == Lit(9144, 10000)

FPS_TO_MPS == Lit(3048, 10000)

\* 0.44704
MPH_TO_MPS == Lit(1397, 3125)

INCHES_PER_METER == Lit(393701, 10000)

\* 1 MOA is about 1.047 inches at 100 yards
moa_per_inch_at_100 == FDiv(FInt(1), Lit(1047, 1000))

base_constant == Lit(167, 1000)

\* float literals of the source
Half == Lit(5, 10)

Hundred == FInt(100)

TypicalFps == FInt(2700)

\* mutant: the guard tests < 0, so a velocity of 0 reaches the division
compute_time_of_flight_strict(distance_yards, muzzle_velocity_fps) ==
    LET distance_m   == FMul(distance_yards, YARDS_TO_METERS)
        velocity_mps == FMul(muzzle_velocity_fps, FPS_TO_MPS)
    IN  IF FLt(velocity_mps, FZero)
        THEN Raise("ValueError")
        ELSE IF velocity_mps = FZero
        THEN Raise("ZeroDivisionError")
        ELSE Return(FDiv(distance_m, velocity_mps))

compute_time_of_flight(distance_yards, muzzle_velocity_fps) ==
    LET distance_m   == FMul(distance_yards, YARDS_TO_METERS)
        velocity_mps == FMul(muzzle_velocity_fps, FPS_TO_MPS)
    IN  IF FLe(velocity_mps, FZero)
        THEN Raise("ValueError")
        ELSE Return(FDiv(distance_m, velocity_mps))

\* the drop estimator around its relative drop (in metres) and the distance
\* its MOA conversion divides by
DropFrom(relative_drop_m, moa_distance) ==
    LET drop_inches     == FMul(relative_drop_m, INCHES_PER_METER)
        distance_factor == FDiv(moa_distance, Hundred)
    IN  IF distance_factor = FZero
        THEN Raise("ZeroDivisionError")
        ELSE Return([drop_inches |-> drop_inches,
                     drop_moa |-> FDiv(FMul(drop_inches, moa_per_inch_at_100),
                                       distance_factor)])

\* mutant: the drop at the zero range is not subtracted
compute_drop_absolute(distance_yards, muzzle_velocity_fps, zero_yards) ==
    LET t_zero   == compute_time_of_flight(zero_yards, muzzle_velocity_fps)
        t_target == compute_time_of_flight(distance_yards, muzzle_velocity_fps)
    IN  IF t_zero.kind = "raise" THEN t_zero
        ELSE IF t_target.kind = "raise" THEN t_target
        ELSE DropFrom(FMul(FMul(Half, G), Square(t_target.value)), distance_yards)

\* mutant: the subtraction is the wrong way round
compute_drop_reversed(distance_yards, muzzle_velocity_fps, zero_yards) ==
    LET t_zero   == compute_time_of_flight(zero_yards, muzzle_velocity_fps)
        t_target == compute_time_of_flight(distance_yards, muzzle_velocity_fps)
    IN  IF t_zero.kind = "raise" THEN t_zero
        ELSE IF t_target.kind = "raise" THEN t_target
        ELSE DropFrom(FSub(FMul(FMul(Half, G), Square(t_zero.value)),
                           FMul(FMul(Half, G), Square(t_target.value))),
                      distance_yards)

\* mutant: the MOA conversion divides by the zero range instead of the distance
compute_drop_moa_at_zero(distance_yards, muzzle_velocity_fps, zero_yards) ==
    LET t_zero   == compute_time_of_flight(zero_yards, muzzle_velocity_fps)
        t_target == compute_time_of_flight(distance_yards, muzzle_velocity_fps)
    IN  IF t_zero.kind = "raise" THEN t_zero
        ELSE IF t_target.kind = "raise" THEN t_target
        ELSE DropFrom(FSub(FMul(FMul(Half, G), Square(t_target.value)),
                           FMul(FMul(Half, G), Square(t_zero.value))),
                      zero_yards)

compute_drop(distance_yards, muzzle_velocity_fps, zero_yards) ==
    LET t_zero   == compute_time_of_flight(zero_yards, muzzle_velocity_fps)
        t_target == compute_time_of_flight(distance_yards, muzzle_velocity_fps)
    IN  IF t_zero.kind = "raise" THEN t_zero
        ELSE IF t_target.kind = "raise" THEN t_target
        ELSE
        LET drop_zero_m     == FMul(FMul(Half, G), Square(t_zero.value))
            drop_target_m   == FMul(FMul(Half, G), Square(t_target.value))
            relative_drop_m == FSub(drop_target_m, drop_zero_m)
        IN  DropFrom(relative_drop_m, distance_yards)

\* the wind-drift estimator from its drift in inches on
DriftFrom(drift_inches, distance_yards) ==
    LET distance_factor == FDiv(distance_yards, Hundred)
    IN  IF distance_factor = FZero
        THEN Raise("ZeroDivisionError")
        ELSE Return([drift_inches |-> drift_inches,
                     drift_moa |-> FDiv(FMul(drift_inches, moa_per_inch_at_100),
                                        distance_factor)])

\* mutant: the wind direction is not applied
compute_wind_drift_unsigned(distance_yards, muzzle_velocity_fps, wind_speed_mph, wind_angle_deg) ==
    LET wind_value == FAbs(Sin(Radians(wind_angle_deg)))
        velocity_factor == Pow08(FDiv(muzzle_velocity_fps, TypicalFps))
        numerator  == FMul(FMul(FMul(wind_speed_mph,
                                     Square(FDiv(distance_yards, Hundred))),
                                wind_value),
                           base_constant)
    IN  IF FSign(muzzle_velocity_fps) <= 0
        THEN Raise("ZeroDivisionError")
        ELSE DriftFrom(FDiv(numerator, velocity_factor), distance_yards)

\* mutant: the time-of-flight formula, linear in the distance:
\* drift = wind speed (m/s) * sin(angle) * time of flight, in inches
compute_wind_drift_by_time(distance_yards, muzzle_velocity_fps, wind_speed_mph, wind_angle_deg) ==
    LET t == compute_time_of_flight(distance_yards, muzzle_velocity_fps)
    IN  IF t.kind = "raise" THEN t
        ELSE DriftFrom(FMul(FMul(FMul(FMul(wind_speed_mph, MPH_TO_MPS),
                                      Sin(Radians(wind_angle_deg))),
                                 t.value),
                            INCHES_PER_METER),
                       distance_yards)

compute_wind_drift(distance_yards, muzzle_velocity_fps, wind_speed_mph, wind_angle_deg) ==
    LET theta_rad      == Radians(wind_angle_deg)
        wind_value     == FAbs(Sin(theta_rad))
        wind_direction == IF FLe(FZero, Sin(theta_rad)) THEN FInt(1) ELSE FInt(-1)
        distance_hundreds   == FDiv(distance_yards, Hundred)
        velocity_normalized == FDiv(muzzle_velocity_fps, TypicalFps)
        numerator      == FMul(FMul(FMul(wind_speed_mph, Square(distance_hundreds)),
                                    wind_value),
                               base_constant)
        distance_factor == FDiv(distance_yards, Hundred)
    IN  IF FSign(velocity_normalized) < 0
        THEN \* negative ** 0.8 is a complex number, and so is all that follows
             IF distance_factor = FZero
             THEN Raise("ZeroDivisionError")
             ELSE Return([drift_inches |-> Complex, drift_moa |-> Complex])
        ELSE
        LET velocity_factor == Pow08(velocity_normalized)
        IN  IF velocity_factor = FZero
            THEN Raise("ZeroDivisionError")
            ELSE
            DriftFrom(FMul(FDiv(numerator, velocity_factor), wind_direction),
                      distance_yards)

(***************************************************************************)
(* backend/app/main.py                                                     *)
(***************************************************************************)
\* the body of the /calculate handler
calculate_shot(data) ==
    LET drop == compute_drop(data.distance_yards,
                             data.rifle.muzzle_velocity_fps,
                             data.rifle.zero_yards)
    IN  IF drop.kind = "raise" THEN drop
        ELSE
        LET drift == compute_wind_drift(data.distance_yards,
                                        data.rifle.muzzle_velocity_fps,
                                        data.wind_speed_mph,
                                        data.wind_angle_deg)
        IN  IF drift.kind = "raise" THEN drift
            ELSE Return([distance_yards |-> data.distance_yards,
                         wind_speed_mph |-> data.wind_speed_mph,
                         wind_angle_deg |-> data.wind_angle_deg,
                         drop_inches    |-> drop.value.drop_inches,
                         drop_moa       |-> drop.value.drop_moa,
                         drift_inches   |-> drift.value.drift_inches,
                         drift_moa      |-> drift.value.drift_moa])

\* the status FastAPI answers with: the route's status code for a returned
\* value, the HTTPException's own code, 500 for any other exception
StatusOf(outcome, status_code) ==
    IF outcome.kind = "return" THEN status_code
    ELSE IF outcome.exc = "HTTPException" THEN outcome.status_code
    ELSE 500

Responded(op, req, outcome, status_code) ==
    [op |-> op, req |-> req, outcome |-> outcome,
     status |-> StatusOf(outcome, status_code)]

(***************************************************************************)
(* backend/app/routers/rifles.py.  RIFLES_DB is a dict, kept here as the   *)
(* sequence of its items in insertion order.                               *)
(***************************************************************************)
Keys(d) == {d[i].key : i \in 1..Len(d)}

Values(d) == [i \in 1..Len(d) |-> d[i].value]

DictGet(d, k) == d[CHOOSE i \in 1..Len(d) : d[i].key = k].value

DictSet(d, k, v) ==
    IF k \in Keys(d)
    THEN [i \in 1..Len(d) |-> IF d[i].key = k THEN [key |-> k, value |-> v] ELSE d[i]]
    ELSE Append(d, [key |-> k, value |-> v])

\* the identifiers uuid4 can produce (each stands for one uuid string)
Ids == 1..(MaxRifles + 1)

\* mutant: the same identifier every time
uuid4_repeats == {1}

\* str(uuid4()): an identifier not generated before
uuid4 == Ids \ Keys(RIFLES_DB)

\* the payloads sent to POST /rifles (RifleCreate puts no constraint on them)
RifleInputs ==
    { [name |-> "a", zero_yards |-> FInt(200), muzzle_velocity_fps |-> FInt(2700)],
      [name |-> "b", zero_yards |-> FInt(100), muzzle_velocity_fps |-> FZero] }

\* the bodies sent to POST /calculate
CalcRequests ==
    { [distance_yards |-> FInt(d), wind_speed_mph |-> FInt(10),
       wind_angle_deg |-> FInt(a),
       rifle |-> [name |-> "a", zero_yards |-> FInt(200),
                  muzzle_velocity_fps |-> FInt(v)]] :
      d \in {0, 300}, a \in {90}, v \in {0, 2700} }

NoReq == [none |-> TRUE]

\* the C libraries the service may be built on
Builds == SUBSET {0, 1}

health ==
    /\ last' = Responded("health", NoReq, Return([status |-> "ok"]), 200)
    /\ UNCHANGED <<RIFLES_DB, creates, first_calc, args, libm>>

list_rifles ==
    /\ last' = Responded("list_rifles", NoReq, Return(Values(RIFLES_DB)), 200)
    /\ UNCHANGED <<RIFLES_DB, creates, first_calc, args, libm>>

create_rifle(rifle_in) ==
    /\ creates < MaxRifles
    /\ \E rifle_id \in uuid4 :
         LET rifle == [id |-> rifle_id, name |-> rifle_in.name,
                       zero_yards |-> rifle_in.zero_yards,
                       muzzle_velocity_fps |-> rifle_in.muzzle_velocity_fps]
         IN  /\ RIFLES_DB' = DictSet(RIFLES_DB, rifle_id, rifle)
             /\ last' = Responded("create_rifle", rifle_in, Return(rifle), 201)
    /\ creates' = creates + 1
    /\ UNCHANGED <<first_calc, args, libm>>

get_rifle(rifle_id) ==
    /\ last' = Responded("get_rifle", rifle_id,
                         IF rifle_id \in Keys(RIFLES_DB)
                         THEN Return(DictGet(RIFLES_DB, rifle_id))
                         ELSE [kind |-> "raise", exc |-> "HTTPException",
                               status_code |-> 404, detail |-> "Rifle not found"],
                         200)
    /\ UNCHANGED <<RIFLES_DB, creates, first_calc, args, libm>>

\* mutant: the handler also files the request's rifle in the store
post_calculate_registers(data) ==
    /\ last' = Responded("calculate_shot", data, calculate_shot(data), 200)
    /\ first_calc' = IF first_calc.op = "none"
                     THEN [op |-> "calculate_shot", req |-> data,
                           outcome |-> last'.outcome, creates |-> creates]
                     ELSE first_calc
    /\ RIFLES_DB' = DictSet(RIFLES_DB, 1,
                            [id |-> 1, name |-> data.rifle.name,
                             zero_yards |-> data.rifle.zero_yards,
                             muzzle_velocity_fps |-> data.rifle.muzzle_velocity_fps])
    /\ UNCHANGED <<creates, args, libm>>

\* POST /calculate
post_calculate(data) ==
    /\ last' = Responded("calculate_shot", data, calculate_shot(data), 200)
    /\ first_calc' = IF first_calc.op = "none"
                     THEN [op |-> "calculate_shot", req |-> data,
                           outcome |-> last'.outcome, creates |-> creates]
                     ELSE first_calc
    /\ UNCHANGED <<RIFLES_DB, creates, args, libm>>

Init ==
    /\ RIFLES_DB = <<>>
    /\ creates = 0
    /\ last = [op |-> "start"]
    /\ first_calc = [op |-> "none"]
    /\ args = [op |-> "none"]
    /\ libm \in Builds

Next ==
    \/ health
    \/ list_rifles
    \/ \E rifle_in \in RifleInputs : create_rifle(rifle_in)
    \/ \E rifle_id \in Ids : get_rifle(rifle_id)
    \/ \E data \in CalcRequests : post_calculate(data)

\* the service: the registry and /calculate, requests served in any order
Spec == Init /\ [][Next]_vars

(***************************************************************************)
(* Direct callers of ballistics.py: the arguments are drawn once, and the  *)
(* three estimators are applied to them.                                   *)
(***************************************************************************)
RECURSIVE Ulps(_, _)
Ulps(x, k) == IF k = 0 THEN x ELSE Ulps(FNext(x), k - 1)

Yards ==
    {FInt(-100), FZero} \cup {Ulps(FInt(b), k) : b \in {200, 300}, k \in 0..MaxUlps}

Velocities == {FInt(-2700), FZero, FInt(2700), FInt(3000)}

WindSpeeds == {FZero, FInt(10)}

WindAngles == {FInt(a) : a \in {0, 45, 90, 180, 270, -90}}

CoreArgs ==
    [distance_yards : Yards, muzzle_velocity_fps : Velocities, zero_yards : Yards,
     wind_speed_mph : WindSpeeds, wind_angle_deg : WindAngles]

call_time_of_flight ==
    /\ last' = [op |-> "compute_time_of_flight",
                outcome |-> compute_time_of_flight(args.distance_yards,
                                                   args.muzzle_velocity_fps)]
    /\ UNCHANGED <<RIFLES_DB, creates, first_calc, args, libm>>

call_drop ==
    /\ last' = [op |-> "compute_drop",
                outcome |-> compute_drop(args.distance_yards,
                                         args.muzzle_velocity_fps,
                                         args.zero_yards)]
    /\ UNCHANGED <<RIFLES_DB, creates, first_calc, args, libm>>

call_wind_drift ==
    /\ last' = [op |-> "compute_wind_drift",
                outcome |-> compute_wind_drift(args.distance_yards,
                                               args.muzzle_velocity_fps,
                                               args.wind_speed_mph,
                                               args.wind_angle_deg)]
    /\ UNCHANGED <<RIFLES_DB, creates, first_calc, args, libm>>

InitCore ==
    /\ RIFLES_DB = <<>>
    /\ creates = 0
    /\ last = [op |-> "start"]
    /\ first_calc = [op |-> "none"]
    /\ args \in CoreArgs
    /\ libm \in Builds

NextCore ==
    \/ call_time_of_flight
    \/ call_drop
    \/ call_wind_drift

SpecCore == InitCore /\ [][NextCore]_vars

(***************************************************************************)
(* The claims.                                                             *)
(***************************************************************************)
Positive(x) == FSign(x) > 0

d_arg == args.distance_yards

v_arg == args.muzzle_velocity_fps

z_arg == args.zero_yards

w_arg == args.wind_speed_mph

a_arg == args.wind_angle_deg

\* C1: with muzzle_velocity_fps <= 0, whatever the distance and the zero range,
\* compute_time_of_flight and compute_drop raise ValueError and return nothing.
C1_NonPositiveVelocityRaises ==
    (last.op \in {"compute_time_of_flight", "compute_drop"} /\ ~Positive(v_arg))
        => last.outcome = Raise("ValueError")

C1_Witness ==
    /\ last.op = "compute_drop"
    /\ v_arg = FZero
    /\ d_arg = FZero
    /\ last.outcome = Raise("ValueError")

\* C2: a /calculate request whose rifle has muzzle_velocity_fps <= 0 is answered
\* with a client error (4xx); it is neither a server error nor a 200 with numbers.
C2_NonPositiveVelocityRejected ==
    (last.op = "calculate_shot" /\ ~Positive(last.req.rifle.muzzle_velocity_fps))
        => last.status \in 400..499

\* C3: with muzzle_velocity_fps > 0, compute_drop and compute_wind_drift raise
\* ValueError for distance_yards <= 0, and compute_drop for zero_yards <= 0: no
\* division by zero and no numeric result.
C3_NonPositiveRangeRejected ==
    (/\ Positive(v_arg)
     /\ \/ last.op \in {"compute_drop", "compute_wind_drift"} /\ ~Positive(d_arg)
        \/ last.op = "compute_drop" /\ ~Positive(z_arg))
        => last.outcome = Raise("ValueError")

\* C4: a /calculate request leaves RIFLES_DB as it was, and it ends the way the
\* first /calculate request with the same body ended, whatever the registry was
\* asked to do before or in between.
C4_CalculateIsStateless ==
    [][last'.op = "calculate_shot"
           => /\ RIFLES_DB' = RIFLES_DB
              /\ first_calc'.req = last'.req => first_calc'.outcome = last'.outcome]_vars

C4_Witness ==
    /\ last.op = "calculate_shot"
    /\ last.outcome.kind = "return"
    /\ first_calc.op = "calculate_shot"
    /\ first_calc.req = last.req
    /\ first_calc.outcome = last.outcome
    /\ first_calc.creates < creates

DriftCase == last.op = "compute_wind_drift" /\ Positive(d_arg) /\ Positive(v_arg)

\* C5 as stated: for distance, velocity and wind speed > 0, angle 0 or 180 gives
\* drift_inches = 0, 90 gives > 0, 270 or -90 gives < 0, and drift_moa has the
\* sign of drift_inches.
C5_SignConvention ==
    (DriftCase /\ Positive(w_arg)) =>
        LET r == last.outcome.value
        IN  /\ a_arg \in {FInt(0), FInt(180)} => r.drift_inches = FZero
            /\ a_arg = FInt(90) => Positive(r.drift_inches)
            /\ a_arg \in {FInt(270), FInt(-90)} => FSign(r.drift_inches) < 0
            /\ FSign(r.drift_moa) = FSign(r.drift_inches)

\* C5 amended: angle 0 gives drift_inches = 0; angle 180 gives a residue that is
\* not negative and at most 2^-49 of the drift of the full crosswind (angle 90);
\* 90 gives > 0, 270 or -90 gives < 0, and drift_moa has the sign of drift_inches.
C5_SignConventionUpToResidue ==
    (DriftCase /\ Positive(w_arg)) =>
        LET r    == last.outcome.value
            full == compute_wind_drift(d_arg, v_arg, w_arg, FInt(90)).value
        IN  /\ a_arg = FInt(0) => r.drift_inches = FZero
            /\ a_arg = FInt(180) =>
                  /\ FSign(r.drift_inches) >= 0
                  /\ FLe(r.drift_inches, FMul(Round(1, -49), full.drift_inches))
            /\ a_arg = FInt(90) => Positive(r.drift_inches)
            /\ a_arg \in {FInt(270), FInt(-90)} => FSign(r.drift_inches) < 0
            /\ FSign(r.drift_moa) = FSign(r.drift_inches)

C5_Witness ==
    /\ DriftCase
    /\ Positive(w_arg)
    /\ a_arg = FInt(180)
    /\ Positive(last.outcome.value.drift_inches)
    /\ Positive(last.outcome.value.drift_moa)

DropCase ==
    last.op = "compute_drop" /\ Positive(d_arg) /\ Positive(v_arg) /\ Positive(z_arg)

\* C6: for d > 0 and v > 0, compute_drop(d, v, zero_yards = d) returns
\* drop_inches = 0 and drop_moa = 0.
C6_NoDropAtZeroRange ==
    (DropCase /\ d_arg = z_arg)
        => last.outcome = Return([drop_inches |-> FZero, drop_moa |-> FZero])

C6_Witness ==
    /\ DropCase
    /\ d_arg = z_arg
    /\ d_arg = FNext(FInt(300))
    /\ last.outcome = Return([drop_inches |-> FZero, drop_moa |-> FZero])

\* the distances beyond the one just asked for
Farther == {d2 \in Yards : FLt(d_arg, d2)}

DropAt(d2) == compute_drop(d2, v_arg, z_arg).value.drop_inches

\* C7 as stated: for v > 0 and zero_yards > 0, drop_inches is positive at every
\* distance beyond zero_yards and strictly increasing in the distance there.
C7_StrictlyIncreasing ==
    (DropCase /\ FLt(z_arg, d_arg)) =>
        /\ Positive(last.outcome.value.drop_inches)
        /\ \A d2 \in Farther : FLt(last.outcome.value.drop_inches, DropAt(d2))

\* C7 amended: for v > 0 and zero_yards > 0, drop_inches is never negative beyond
\* zero_yards and never decreases as the distance grows there (neighbouring
\* floats may give the same drop, and 0 next to zero_yards); at distance 300 with
\* zero 200 it is positive.
C7_NonDecreasing ==
    (DropCase /\ FLt(z_arg, d_arg)) =>
        /\ FSign(last.outcome.value.drop_inches) >= 0
        /\ \A d2 \in Farther : FLe(last.outcome.value.drop_inches, DropAt(d2))
        /\ (d_arg = FInt(300) /\ z_arg = FInt(200))
               => Positive(last.outcome.value.drop_inches)

C7_Witness ==
    /\ DropCase
    /\ FLt(z_arg, d_arg)
    /\ v_arg = FInt(2700)
    /\ \E d2 \in Farther : DropAt(d2) = last.outcome.value.drop_inches

\* inches to MOA at a distance
ToMoa(inches, distance_yards) ==
    FDiv(FMul(inches, FDiv(FInt(1), Lit(1047, 1000))), FDiv(distance_yards, FInt(100)))

\* the /calculate request made of the arguments held
ArgsRequest ==
    [distance_yards |-> d_arg, wind_speed_mph |-> w_arg, wind_angle_deg |-> a_arg,
     rifle |-> [name |-> "a", zero_yards |-> z_arg, muzzle_velocity_fps |-> v_arg]]

\* C8: for distance, velocity and zero range > 0, drop_moa is drop_inches times
\* (1/1.047) over (distance_yards/100), drift_moa is drift_inches converted the
\* same way, and calculate_shot answers with these four values.
C8_MoaIsInchesConverted ==
    /\ DropCase =>
          LET r == last.outcome.value
              c == calculate_shot(ArgsRequest).value
          IN  /\ r.drop_moa = ToMoa(r.drop_inches, d_arg)
              /\ c.drop_inches = r.drop_inches
              /\ c.drop_moa = r.drop_moa
    /\ (DriftCase /\ Positive(z_arg)) =>
          LET r == last.outcome.value
              c == calculate_shot(ArgsRequest).value
          IN  /\ r.drift_moa = ToMoa(r.drift_inches, d_arg)
              /\ c.drift_inches = r.drift_inches
              /\ c.drift_moa = r.drift_moa

C8_Witness ==
    /\ DriftCase
    /\ Positive(z_arg)
    /\ Positive(last.outcome.value.drift_moa)
    /\ calculate_shot(ArgsRequest).value.drift_moa = last.outcome.value.drift_moa
    /\ Positive(calculate_shot(ArgsRequest).value.drop_moa)

Calibration ==
    /\ d_arg = FInt(300)
    /\ v_arg = FInt(2700)
    /\ w_arg = FInt(10)
    /\ a_arg = FInt(90)

DriftAtTwice ==
    compute_wind_drift(FMul(FInt(2), d_arg), v_arg, w_arg, a_arg).value.drift_inches

\* C9 as stated: compute_wind_drift(300, 2700, 10, 90) gives between 15 and 16
\* inches, and doubling the distance multiplies drift_inches by 4.
C9_CalibratedAndQuadratic ==
    DriftCase =>
        LET r == last.outcome.value
        IN  /\ Calibration => /\ FLe(FInt(15), r.drift_inches)
                              /\ FLe(r.drift_inches, FInt(16))
            /\ DriftAtTwice = FMul(FInt(4), r.drift_inches)

\* C9 amended: compute_wind_drift(300, 2700, 10, 90) gives between 15 and 16
\* inches, and doubling the distance multiplies drift_inches by 4 up to rounding:
\* the two differ by at most 2^4 times the float's relative precision (2^-49 of
\* the value for binary64).
C9_CalibratedAndQuadraticUpToRounding ==
    DriftCase =>
        LET r    == last.outcome.value
            four == FMul(FInt(4), r.drift_inches)
        IN  /\ Calibration => /\ FLe(FInt(15), r.drift_inches)
                              /\ FLe(r.drift_inches, FInt(16))
            /\ FLe(FAbs(FSub(DriftAtTwice, four)),
                   FMul(Round(1, 4 - Prec), FAbs(four)))

C9_Witness ==
    /\ DriftCase
    /\ Calibration
    /\ FLe(FInt(15), last.outcome.value.drift_inches)
    /\ DriftAtTwice = FMul(FInt(4), last.outcome.value.drift_inches)

\* C10: RIFLES_DB holds one record per completed create, each under its own id,
\* which is the record's id field and no other record's key; a step never alters
\* or removes a record already stored; list and get leave the store as it was,
\* and a get of an unknown id answers 404 "Rifle not found".
C10_Store ==
    /\ Len(RIFLES_DB) = creates
    /\ Cardinality(Keys(RIFLES_DB)) = Len(RIFLES_DB)
    /\ \A i \in 1..Len(RIFLES_DB) : RIFLES_DB[i].value.id = RIFLES_DB[i].key

C10_Step ==
    /\ \A i \in 1..Len(RIFLES_DB) :
          i <= Len(RIFLES_DB') /\ RIFLES_DB'[i] = RIFLES_DB[i]
    /\ last'.op \in {"list_rifles", "get_rifle"} => RIFLES_DB' = RIFLES_DB
    /\ (last'.op = "get_rifle" /\ last'.req \notin Keys(RIFLES_DB'))
          => /\ last'.status = 404
             /\ last'.outcome.detail = "Rifle not found"

C10_RegistryKeepsEveryRifle == [](C10_Store) /\ [][C10_Step]_vars

C10_Witness ==
    /\ creates = MaxRifles
    /\ Len(RIFLES_DB) = MaxRifles
    /\ last.op = "get_rifle"
    /\ last.status = 404
====
